---- MODULE Spec2Model ----
(***************************************************************************)
(* Viewport / interaction engine and ownership gate of src/src/App.js:     *)
(* isometric projection, visible window, viewport frame, pan limits,       *)
(* drag panning, and the claim / ownership-read state machine.             *)
(*                                                                         *)
(* React state is modelled at the granularity of committed renders: a      *)
(* setState call and the render that commits it are one step, and the      *)
(* passive effect that a changed dependency schedules is a later step      *)
(* (resetPending).  Every `await` of the async functions is a point where  *)
(* other handlers may run.                                                 *)
(***************************************************************************)
EXTENDS Integers, Sequences, FiniteSets, TLC

(* ---------- Config (App.js 7-15) ---------- *)
GRID_SIZE == 100
VISIBLE_SIZE == 11
SIZING_GRID == 20
TILE_W == 96
TILE_H == 48
SEED_DEFAULT == 1337

(* ---------- Bounds of the model ---------- *)
\* concurrent runs of checkExistingClaim that the model tracks
MaxChecks == 2
\* pointer positions are multiples 0..MaxPointer of PointerStep pixels per axis
MaxPointer == 1
PointerStep == 2000

(* ---------- Values ---------- *)
NoCell == [x |-> -1, y |-> -1]
NoTip == [x |-> -1, y |-> -1, r |-> -1, c |-> -1]
NoAccount == "none"
Accounts == {"acctA", "acctB"}
Cell(r, c) == [x |-> r, y |-> c]
GridCells == {Cell(r, c) : r \in 0..(GRID_SIZE - 1), c \in 0..(GRID_SIZE - 1)}

(* ---------- Utilities ---------- *)
\* mutant: the x coordinate taken from col + row
isoPosSum(row, col) ==
  [x |-> (col + row) * (TILE_W \div 2),
   y |-> (col + row) * (TILE_H \div 2)]

isoPos(row, col) ==
  [x |-> (col - row) * (TILE_W \div 2),
   y |-> (col + row) * (TILE_H \div 2)]

\* the four vertices of the tile diamond, relative to the tile's position
tilePath ==
  LET w2 == TILE_W \div 2
      h == TILE_H \div 2
  IN <<[x |-> 0, y |-> -h], [x |-> w2, y |-> 0], [x |-> 0, y |-> h], [x |-> -w2, y |-> 0]>>

Min2(a, b) == IF a < b THEN a ELSE b
Max2(a, b) == IF a > b THEN a ELSE b

clamp(v, lo, hi) == Max2(lo, Min2(hi, v))

\* Math.floor(a / b) for b > 0
Floor(a, b) == a \div b

\* mutant: the start is not clamped into the grid
getVisibleWindowUnclamped(center) ==
  IF center # NoCell
  THEN LET half == Floor(VISIBLE_SIZE, 2)
       IN [startR |-> center.x - half, endR |-> center.x - half + VISIBLE_SIZE - 1,
           startC |-> center.y - half, endC |-> center.y - half + VISIBLE_SIZE - 1]
  ELSE LET start == Floor(GRID_SIZE - VISIBLE_SIZE, 2)
       IN [startR |-> start, endR |-> start + VISIBLE_SIZE - 1,
           startC |-> start, endC |-> start + VISIBLE_SIZE - 1]

\* mutant: half rounded up instead of down
getVisibleWindowCeilHalf(center) ==
  IF center # NoCell
  THEN LET half == Floor(VISIBLE_SIZE + 1, 2)
           startR == clamp(center.x - half, 0, GRID_SIZE - VISIBLE_SIZE)
           startC == clamp(center.y - half, 0, GRID_SIZE - VISIBLE_SIZE)
       IN [startR |-> startR, endR |-> startR + VISIBLE_SIZE - 1,
           startC |-> startC, endC |-> startC + VISIBLE_SIZE - 1]
  ELSE LET start == Floor(GRID_SIZE - VISIBLE_SIZE, 2)
       IN [startR |-> start, endR |-> start + VISIBLE_SIZE - 1,
           startC |-> start, endC |-> start + VISIBLE_SIZE - 1]

getVisibleWindow(center) ==
  IF center # NoCell
  THEN LET half == Floor(VISIBLE_SIZE, 2)
           startR == clamp(center.x - half, 0, GRID_SIZE - VISIBLE_SIZE)
           startC == clamp(center.y - half, 0, GRID_SIZE - VISIBLE_SIZE)
       IN [startR |-> startR, endR |-> startR + VISIBLE_SIZE - 1,
           startC |-> startC, endC |-> startC + VISIBLE_SIZE - 1]
  ELSE LET start == Floor(GRID_SIZE - VISIBLE_SIZE, 2)
       IN [startR |-> start, endR |-> start + VISIBLE_SIZE - 1,
           startC |-> start, endC |-> start + VISIBLE_SIZE - 1]

(* ---------- Viewbox / centering logic ---------- *)
\* mutant: the frame sized by the visible window instead of SIZING_GRID
sizingWidthOfWindow == VISIBLE_SIZE * TILE_W
sizingWidth == SIZING_GRID * TILE_W
sizingHeight == SIZING_GRID * TILE_H

\* the cell the frame is centred on: the owned cell, else the centre of the
\* default window
frameCenter(oc) ==
  IF oc # NoCell
  THEN oc
  ELSE LET startCenter == Floor(GRID_SIZE - VISIBLE_SIZE, 2)
       IN Cell(startCenter + Floor(VISIBLE_SIZE, 2),
               startCenter + Floor(VISIBLE_SIZE, 2))

\* mutant: the frame's corner put on the centre point
baseMinUncentred(oc) ==
  LET p == isoPos(frameCenter(oc).x, frameCenter(oc).y)
  IN [x |-> p.x, y |-> p.y]

baseMin(oc) ==
  LET p == isoPos(frameCenter(oc).x, frameCenter(oc).y)
  IN [x |-> p.x - sizingWidth \div 2, y |-> p.y - sizingHeight \div 2]

viewFrame(oc) ==
  [minX |-> baseMin(oc).x, minY |-> baseMin(oc).y,
   width |-> sizingWidth, height |-> sizingHeight]

\* mutant: the height without the last row's tile
WORLD_lastRowMissing ==
  [minX |-> -GRID_SIZE * (TILE_W \div 2),
   minY |-> -(TILE_H \div 2),
   width |-> GRID_SIZE * TILE_W,
   height |-> (GRID_SIZE - 1) * TILE_H]

WORLD ==
  [minX |-> -GRID_SIZE * (TILE_W \div 2),
   minY |-> -(TILE_H \div 2),
   width |-> GRID_SIZE * TILE_W,
   height |-> (GRID_SIZE - 1) * TILE_H + TILE_H]

EDGE_PAD == 0
EDGE_PAD_X == 50

\* mutant: maxX measured from the world's right edge instead of its left
PAN_LIMITS_narrow(oc) ==
  LET v == viewFrame(oc)
  IN [maxX |-> v.minX - WORLD.minX - WORLD.width - EDGE_PAD_X,
      minX |-> (v.minX + v.width) - (WORLD.minX + WORLD.width) + EDGE_PAD_X,
      maxY |-> v.minY - WORLD.minY + EDGE_PAD,
      minY |-> (v.minY + v.height) - (WORLD.minY + WORLD.height) - EDGE_PAD]

\* mutant: the horizontal pad applied outwards
PAN_LIMITS_padOutward(oc) ==
  LET v == viewFrame(oc)
  IN [maxX |-> v.minX - WORLD.minX + EDGE_PAD_X,
      minX |-> (v.minX + v.width) - (WORLD.minX + WORLD.width) - EDGE_PAD_X,
      maxY |-> v.minY - WORLD.minY + EDGE_PAD,
      minY |-> (v.minY + v.height) - (WORLD.minY + WORLD.height) - EDGE_PAD]

PAN_LIMITS(oc) ==
  LET v == viewFrame(oc)
  IN [maxX |-> v.minX - WORLD.minX - EDGE_PAD_X,
      minX |-> (v.minX + v.width) - (WORLD.minX + WORLD.width) + EDGE_PAD_X,
      maxY |-> v.minY - WORLD.minY + EDGE_PAD,
      minY |-> (v.minY + v.height) - (WORLD.minY + WORLD.height) - EDGE_PAD]

\* the pan the reset effect computes: clamp of (0,0) against the limits
resetPan(oc) ==
  [x |-> clamp(0, PAN_LIMITS(oc).minX, PAN_LIMITS(oc).maxX),
   y |-> clamp(0, PAN_LIMITS(oc).minY, PAN_LIMITS(oc).maxY)]

(* ---------- Form input conversion: Number(text) ---------- *)
\* A field's text is a sequence of characters.  Number("") is 0; a text is a
\* number when it is digits with an optional leading "-" and at most one ".".
Digits == <<"0", "1", "2", "3", "4", "5", "6", "7", "8", "9">>
IsDigit(ch) == \E i \in 1..10 : Digits[i] = ch
DigitVal(ch) == (CHOOSE i \in 1..10 : Digits[i] = ch) - 1

RECURSIVE DigitsVal(_)
DigitsVal(s) ==
  IF s = <<>> THEN 0
  ELSE 10 * DigitsVal(SubSeq(s, 1, Len(s) - 1)) + DigitVal(s[Len(s)])

AllDigits(s) == \A i \in 1..Len(s) : IsDigit(s[i])
AllZero(s) == \A i \in 1..Len(s) : s[i] = "0"

\* [nan, int, val]: nan = NaN, int = Number.isInteger of the result,
\* val = the integer value when int
Number(text) ==
  IF text = <<>> THEN [nan |-> FALSE, int |-> TRUE, val |-> 0]
  ELSE
    LET neg == Head(text) = "-"
        body == IF neg THEN Tail(text) ELSE text
        dots == {i \in 1..Len(body) : body[i] = "."}
        dot == IF dots = {} THEN Len(body) + 1
               ELSE CHOOSE i \in dots : \A j \in dots : i <= j
        ip == SubSeq(body, 1, dot - 1)
        fp == SubSeq(body, dot + 1, Len(body))
        valid == /\ Cardinality(dots) <= 1
                 /\ AllDigits(ip) /\ AllDigits(fp)
                 /\ Len(ip) + Len(fp) > 0
        v == IF neg THEN -DigitsVal(ip) ELSE DigitsVal(ip)
    IN IF ~valid THEN [nan |-> TRUE, int |-> FALSE, val |-> 0]
       ELSE [nan |-> FALSE, int |-> AllZero(fp), val |-> v]

\* texts typed into the X and Y fields
InputTexts ==
  {<<"5">>, <<"1", "0", "0">>, <<"1", ".", "5">>}
\* values of the resource selector (0..7 are its options)
ResourceInputs == {2, 9}
\* amounts the ledger may report as the occupy fee
FeeAmounts == {0, 1000}
NoFee == -1

(* ---------- Failure texts of the chain client ---------- *)
\* A failure text is the set of fragments it contains; "" is the empty set.
Fragments ==
  {"OutOfBounds", "AlreadyOccupied", "WrongFee", "InvalidResourceType",
   "User rejected", "timeout"}
FailureTexts ==
  {{}, {"timeout"}, {"OutOfBounds"}, {"AlreadyOccupied"}, {"WrongFee"},
   {"InvalidResourceType"}, {"User rejected"},
   {"WrongFee", "AlreadyOccupied"}}
toLowerCase(f) ==
  CASE f = "OutOfBounds" -> "outofbounds"
    [] f = "AlreadyOccupied" -> "alreadyoccupied"
    [] f = "WrongFee" -> "wrongfee"
    [] f = "InvalidResourceType" -> "invalidresourcetype"
    [] f = "User rejected" -> "user rejected"
    [] OTHER -> f
includes(msg, needle) == \E f \in msg : toLowerCase(f) = needle

\* mutant: the wrong-fee test comes before the already-occupied test
classifyWrongFeeFirst(msg) ==
  IF includes(msg, "outofbounds") THEN "Out of bounds."
  ELSE IF includes(msg, "wrongfee") THEN "Wrong fee sent."
  ELSE IF includes(msg, "alreadyoccupied") THEN "That cell is already occupied."
  ELSE IF includes(msg, "invalidresourcetype") THEN "Invalid resource type."
  ELSE IF includes(msg, "user rejected") THEN "Transaction was rejected."
  ELSE "Failed to occupy the cell. See console for details."

\* the message the catch block of handleOccupy sets
classify(msg) ==
  IF includes(msg, "outofbounds") THEN "Out of bounds."
  ELSE IF includes(msg, "alreadyoccupied") THEN "That cell is already occupied."
  ELSE IF includes(msg, "wrongfee") THEN "Wrong fee sent."
  ELSE IF includes(msg, "invalidresourcetype") THEN "Invalid resource type."
  ELSE IF includes(msg, "user rejected") THEN "Transaction was rejected."
  ELSE "Failed to occupy the cell. See console for details."

WalletMissing == {"Ethereum wallet is not installed"}

(* ---------- State ---------- *)
VARIABLES
  hasWallet,     \* window.ethereum exists
  account,       \* the wallet's connected account (accounts[0]) or NoAccount
  ledger,        \* per account, the cells it owns on the ledger, first first
  ownedCell,     \* useState(null): NoCell or {x, y}
  feeWei,        \* useState(null): NoFee or the amount read
  feePc,         \* the fee read: "pending" or "done"
  busy,          \* useState(false)
  error,         \* useState("")
  checks,        \* in-flight runs of checkExistingClaim
  occ,           \* the in-flight run of handleOccupy
  pan,           \* useState({x: 0, y: 0}): committed offset
  panRef,        \* useRef({x: 0, y: 0}): live offset
  dragRef,       \* useRef({active, start, orig})
  origHist,      \* history of the gesture that recorded dragRef.orig: the anchor at its
                 \* pointer-down, and whether a pan reset has run since
  resetPending,  \* the pan reset effect is scheduled and has not run yet
  seed,          \* useState(SEED_DEFAULT)
  tip,           \* useState(null): NoTip or {x, y, r, c}
  hover,         \* hoverRef.current.style.display: "none" or "block"
  hoverRaf,      \* the hover effect's raf: a hover frame callback is pending
  rafIdRef,      \* useRef(0): nonzero (TRUE) while the pan layer's callback is noted pending
  rafQueue,      \* number of pan-layer frame callbacks the browser holds
  transform      \* the transform attribute of the pan layer in the DOM

gateVars == <<hasWallet, account, ledger, ownedCell, feeWei, feePc, busy, error, checks, occ>>
panVars == <<pan, panRef, dragRef, origHist, resetPending>>
uiVars == <<seed, tip, hover, hoverRaf, rafIdRef, rafQueue, transform>>

\* a pan reset has run since the active gesture recorded its origin
origStale == origHist.stale
\* the anchor under which the active gesture recorded its origin
origAnchor == origHist.anchor
vars == <<hasWallet, account, ledger, ownedCell, feeWei, feePc, busy, error,
          checks, occ, pan, panRef, dragRef, origHist, resetPending,
          seed, tip, hover, hoverRaf, rafIdRef, rafQueue, transform>>

\* the ledger at load: acctA owns nothing, acctB owns the corner cell (0,99)
LedgerAtLoad == [a \in Accounts |-> IF a = "acctB" THEN <<Cell(0, 99)>> ELSE <<>>]

IdleOcc == [pc |-> "idle", xi |-> 0, yi |-> 0, res |-> 0, fee |-> NoFee, acct |-> NoAccount]

showGate == ownedCell = NoCell

\* what the render presents: the gate card is mounted only while showGate;
\* the hud, the backdrop and the footer get display none, and the svg
\* visibility hidden, while showGate
gateRendered == showGate
hudDisplay == IF showGate THEN "none" ELSE "flex"
\* mutant: the scene stays visible underneath the gate
svgVisibilityAlways == "visible"
svgVisibility == IF showGate THEN "hidden" ELSE "visible"

Occupied == UNION {{ledger[a][i] : i \in 1..Len(ledger[a])} : a \in Accounts}

\* setOwnedCell(c) and the render that commits it: a new object (or a change
\* to null) changes the effect's dependency, which schedules the pan reset
setOwnedCell(c) ==
  /\ ownedCell' = c
  /\ resetPending' = IF c = NoCell /\ ownedCell = NoCell THEN resetPending ELSE TRUE

(* ---------- checkExistingClaim ---------- *)
\* checks[k] = number of runs suspended at k: "accounts" = awaiting
\* eth_accounts, an account = awaiting getFirstCell(that account)
CheckKinds == {"accounts"} \cup Accounts
RECURSIVE SumOver(_, _)
SumOver(f, S) ==
  IF S = {} THEN 0
  ELSE LET k == CHOOSE e \in S : TRUE IN f[k] + SumOver(f, S \ {k})
InFlight(cs) == SumOver(cs, CheckKinds)

\* the call, up to its first await; with no wallet it returns at once
checkExistingClaim(cs) ==
  IF ~hasWallet THEN cs
  ELSE [cs EXCEPT !["accounts"] = @ + 1]

\* eth_accounts resolves
AccountsResolved ==
  /\ checks["accounts"] > 0
  /\ checks' = IF account = NoAccount
               THEN [checks EXCEPT !["accounts"] = @ - 1]
               ELSE [checks EXCEPT !["accounts"] = @ - 1, ![account] = @ + 1]
  /\ UNCHANGED <<hasWallet, account, ledger, ownedCell, feeWei, feePc, busy, error, occ>>
  /\ UNCHANGED panVars
  /\ UNCHANGED uiVars

\* getFirstCell(addr) resolves with (has, x, y)
CellResolved(addr) ==
  /\ checks[addr] > 0
  /\ LET cells == ledger[addr]
     IN IF cells # <<>>
        THEN /\ setOwnedCell(Head(cells))
             /\ error' = ""
        ELSE UNCHANGED <<ownedCell, resetPending, error>>
  /\ checks' = [checks EXCEPT ![addr] = @ - 1]
  /\ UNCHANGED <<hasWallet, account, ledger, feeWei, feePc, busy, occ>>
  /\ UNCHANGED <<pan, panRef, dragRef, origHist>>
  /\ UNCHANGED uiVars

\* mutant: a failed read is surfaced as an error message
CheckFailedSurfaced(k) ==
  /\ checks[k] > 0
  /\ checks' = [checks EXCEPT ![k] = @ - 1]
  /\ error' = "Failed to read ownership."
  /\ UNCHANGED <<hasWallet, account, ledger, ownedCell, feeWei, feePc, busy, occ>>
  /\ UNCHANGED panVars
  /\ UNCHANGED uiVars

\* either await rejects: the catch block logs and leaves the gate as it is
CheckFailed(k) ==
  /\ checks[k] > 0
  /\ checks' = [checks EXCEPT ![k] = @ - 1]
  /\ UNCHANGED <<hasWallet, account, ledger, ownedCell, feeWei, feePc, busy, error, occ>>
  /\ UNCHANGED panVars
  /\ UNCHANGED uiVars

(* ---------- accountsChanged listener ---------- *)
\* mutant: the listener restarts the read and keeps the granted cell
onAccountsChangedKeepsCell(a) ==
  /\ hasWallet
  /\ a # account
  /\ InFlight(checks) < MaxChecks
  /\ account' = a
  /\ checks' = checkExistingClaim(checks)
  /\ UNCHANGED <<hasWallet, ledger, ownedCell, feeWei, feePc, busy, error, occ>>
  /\ UNCHANGED panVars
  /\ UNCHANGED uiVars

\* the wallet switches to account a (or disconnects) and notifies
onAccountsChanged(a) ==
  /\ hasWallet
  /\ a # account
  /\ InFlight(checks) < MaxChecks
  /\ account' = a
  /\ setOwnedCell(NoCell)
  /\ checks' = checkExistingClaim(checks)
  /\ UNCHANGED <<hasWallet, ledger, feeWei, feePc, busy, error, occ>>
  /\ UNCHANGED <<pan, panRef, dragRef, origHist>>
  /\ UNCHANGED uiVars

(* ---------- fee fetch effect ---------- *)
FeeResolved(f) ==
  /\ feePc = "pending"
  /\ feePc' = "done"
  /\ feeWei' = f
  /\ UNCHANGED <<hasWallet, account, ledger, ownedCell, busy, error, checks, occ>>
  /\ UNCHANGED panVars
  /\ UNCHANGED uiVars

FeeFailed ==
  /\ feePc = "pending"
  /\ feePc' = "done"
  /\ error' = "Failed to read occupy fee from contract."
  /\ UNCHANGED <<hasWallet, account, ledger, ownedCell, feeWei, busy, checks, occ>>
  /\ UNCHANGED panVars
  /\ UNCHANGED uiVars



(* ---------- handleOccupy ---------- *)
\* mutant: the local checks without the fee check
validationErrorSkipsFee(xs, ys, rid) ==
  LET xi == Number(xs)
      yi == Number(ys)
  IN IF ~xi.int \/ ~yi.int THEN "Coordinates must be integers."
     ELSE IF xi.val < 0 \/ yi.val < 0 \/ xi.val >= GRID_SIZE \/ yi.val >= GRID_SIZE
       THEN "Coordinates must be within 0..99."
     ELSE IF rid < 0 \/ rid > 7 THEN "Invalid resource type."
     ELSE ""

\* the local checks, in the code's order; "" when all pass
validationError(xs, ys, rid) ==
  LET xi == Number(xs)
      yi == Number(ys)
  IN IF ~xi.int \/ ~yi.int THEN "Coordinates must be integers."
     ELSE IF xi.val < 0 \/ yi.val < 0 \/ xi.val >= GRID_SIZE \/ yi.val >= GRID_SIZE
       THEN "Coordinates must be within 0..99."
     ELSE IF rid < 0 \/ rid > 7 THEN "Invalid resource type."
     ELSE IF feeWei = NoFee \/ feeWei = 0 THEN "Occupy fee is not loaded yet."
     ELSE ""

\* mutant: the Occupy button stays enabled while busy
handleOccupyWhileBusy(xs, ys, rid) ==
  /\ showGate
  /\ LET v == validationError(xs, ys, rid)
     IN IF v # ""
        THEN /\ error' = v
             /\ busy' = FALSE
             /\ occ' = occ
        ELSE /\ error' = ""
             /\ busy' = TRUE
             /\ occ' = [pc |-> "signer", xi |-> Number(xs).val, yi |-> Number(ys).val,
                        res |-> rid, fee |-> feeWei, acct |-> NoAccount]
  /\ UNCHANGED <<hasWallet, account, ledger, ownedCell, feeWei, feePc, checks>>
  /\ UNCHANGED panVars
  /\ UNCHANGED uiVars

\* mutant: the signer is requested before the local checks are evaluated
handleOccupyPromptsFirst(xs, ys, rid) ==
  /\ showGate
  /\ ~busy
  /\ error' = ""
  /\ busy' = TRUE
  /\ occ' = [pc |-> "signer", xi |-> Number(xs).val, yi |-> Number(ys).val,
             res |-> rid, fee |-> feeWei, acct |-> NoAccount]
  /\ UNCHANGED <<hasWallet, account, ledger, ownedCell, feeWei, feePc, checks>>
  /\ UNCHANGED panVars
  /\ UNCHANGED uiVars

\* mutant: the claim is submitted without the selected resource type
handleOccupyDefaultResource(xs, ys, rid) ==
  /\ showGate
  /\ ~busy
  /\ LET v == validationError(xs, ys, rid)
     IN IF v # ""
        THEN /\ error' = v
             /\ busy' = FALSE
             /\ occ' = occ
        ELSE /\ error' = ""
             /\ busy' = TRUE
             /\ occ' = [pc |-> "signer", xi |-> Number(xs).val, yi |-> Number(ys).val,
                        res |-> 0, fee |-> feeWei, acct |-> NoAccount]
  /\ UNCHANGED <<hasWallet, account, ledger, ownedCell, feeWei, feePc, checks>>
  /\ UNCHANGED panVars
  /\ UNCHANGED uiVars

\* click on the Occupy button, up to the first await
\* (the button is rendered with the form and disabled while busy)
handleOccupy(xs, ys, rid) ==
  /\ showGate
  /\ ~busy
  /\ LET v == validationError(xs, ys, rid)
     IN IF v # ""
        THEN /\ error' = v
             /\ busy' = FALSE
             /\ occ' = occ
        ELSE /\ error' = ""
             /\ busy' = TRUE
             /\ occ' = [pc |-> "signer", xi |-> Number(xs).val, yi |-> Number(ys).val,
                        res |-> rid, fee |-> feeWei, acct |-> NoAccount]
  /\ UNCHANGED <<hasWallet, account, ledger, ownedCell, feeWei, feePc, checks>>
  /\ UNCHANGED panVars
  /\ UNCHANGED uiVars

\* mutant: the catch block sets the message and busy is left as it is
occupyCatchKeepsBusy(msg) ==
  /\ error' = classify(msg)
  /\ busy' = busy
  /\ occ' = IdleOcc

\* catch (e) { classify } finally { setBusy(false) }
occupyCatch(msg) ==
  /\ error' = classify(msg)
  /\ busy' = FALSE
  /\ occ' = IdleOcc

\* mutant: the signer contract is obtained without looking for a wallet
SignerResolvedWithoutWallet ==
  /\ occ.pc = "signer"
  /\ occ' = [occ EXCEPT !.pc = "send", !.acct = account]
  /\ UNCHANGED <<hasWallet, account, ledger, ownedCell, feeWei, feePc, busy, error, checks>>
  /\ UNCHANGED panVars
  /\ UNCHANGED uiVars

\* getSignerContractMain resolves: eth_requestAccounts returned the connected account
SignerResolved ==
  /\ occ.pc = "signer"
  /\ hasWallet
  /\ account # NoAccount
  /\ occ' = [occ EXCEPT !.pc = "send", !.acct = account]
  /\ UNCHANGED <<hasWallet, account, ledger, ownedCell, feeWei, feePc, busy, error, checks>>
  /\ UNCHANGED panVars
  /\ UNCHANGED uiVars

\* getSignerContractMain throws: no wallet, or the request was rejected or failed
SignerFailed(msg) ==
  /\ occ.pc = "signer"
  /\ IF hasWallet THEN msg \in FailureTexts ELSE msg = WalletMissing
  /\ occupyCatch(msg)
  /\ UNCHANGED <<hasWallet, account, ledger, ownedCell, feeWei, feePc, checks>>
  /\ UNCHANGED panVars
  /\ UNCHANGED uiVars

\* wallet requests in flight.  A run suspended at "accounts" has issued
\* eth_accounts (which never prompts) and awaits it; a run of handleOccupy
\* suspended at "signer" with a wallet present has issued eth_requestAccounts
\* (which prompts a connection) and awaits it.  The ledger reads use the
\* JsonRpcProvider of getContractMain and involve no wallet.
AccountReadsInFlight == checks["accounts"]
PromptInFlight == occ.pc = "signer" /\ hasWallet

\* mutant: the cell is granted when the tx is sent, before tx.wait()
TxSentGrants ==
  /\ occ.pc = "send"
  /\ occ' = [occ EXCEPT !.pc = "wait"]
  /\ setOwnedCell(Cell(occ.xi, occ.yi))
  /\ UNCHANGED <<hasWallet, account, ledger, feeWei, feePc, busy, error, checks>>
  /\ UNCHANGED <<pan, panRef, dragRef, origHist>>
  /\ UNCHANGED uiVars

\* the arguments of c.occupyAt(xi, yi, resourceId, {value: feeWei}) as the
\* run holds them in its closure
occupyAtCall == [row |-> occ.xi, col |-> occ.yi, resourceType |-> occ.res, value |-> occ.fee]

\* c.occupyAt(xi, yi, resourceId, {value: feeWei}) resolves with the sent tx
TxSent ==
  /\ occ.pc = "send"
  /\ occ' = [occ EXCEPT !.pc = "wait"]
  /\ UNCHANGED <<hasWallet, account, ledger, ownedCell, feeWei, feePc, busy, error, checks>>
  /\ UNCHANGED panVars
  /\ UNCHANGED uiVars

\* mutant: a failed send or confirmation also forgets the loaded fee
TxFailedForgetsFee(msg) ==
  /\ occ.pc \in {"send", "wait"}
  /\ msg \in FailureTexts
  /\ occupyCatch(msg)
  /\ feeWei' = NoFee
  /\ UNCHANGED <<hasWallet, account, ledger, ownedCell, feePc, checks>>
  /\ UNCHANGED panVars
  /\ UNCHANGED uiVars

\* occupyAt or tx.wait() rejects
TxFailed(msg) ==
  /\ occ.pc \in {"send", "wait"}
  /\ msg \in FailureTexts
  /\ occupyCatch(msg)
  /\ UNCHANGED <<hasWallet, account, ledger, ownedCell, feeWei, feePc, checks>>
  /\ UNCHANGED panVars
  /\ UNCHANGED uiVars

\* the ledger accepts the claim and tx.wait() resolves; the ledger accepts
\* only a cell nobody holds (it rejects a taken one as AlreadyOccupied)
TxConfirmed ==
  /\ occ.pc = "wait"
  /\ Cell(occ.xi, occ.yi) \notin Occupied
  /\ ledger' = [ledger EXCEPT ![occ.acct] = Append(@, Cell(occ.xi, occ.yi))]
  /\ setOwnedCell(Cell(occ.xi, occ.yi))
  /\ busy' = FALSE
  /\ occ' = IdleOcc
  /\ UNCHANGED <<hasWallet, account, feeWei, feePc, error, checks>>
  /\ UNCHANGED <<pan, panRef, dragRef, origHist>>
  /\ UNCHANGED uiVars

(* ---------- Pan controller ---------- *)
\* mutant: the reset writes (0,0) without clamping it
PanResetUnclamped ==
  /\ resetPending
  /\ pan' = [x |-> 0, y |-> 0]
  /\ panRef' = [x |-> 0, y |-> 0]
  /\ transform' = [x |-> 0, y |-> 0]
  /\ resetPending' = FALSE
  /\ UNCHANGED dragRef
  /\ origHist' = [origHist EXCEPT !.stale = dragRef.active]
  /\ UNCHANGED gateVars
  /\ UNCHANGED <<seed, tip, hover, hoverRaf, rafIdRef, rafQueue>>

\* the effect with deps [seed, ownedCell, PAN_LIMITS...]: setPan, panRef and
\* the pan layer's transform attribute
PanResetEffect ==
  /\ resetPending
  /\ pan' = resetPan(ownedCell)
  /\ panRef' = resetPan(ownedCell)
  /\ transform' = resetPan(ownedCell)
  /\ resetPending' = FALSE
  /\ UNCHANGED dragRef
  /\ origHist' = [origHist EXCEPT !.stale = dragRef.active]
  /\ UNCHANGED gateVars
  /\ UNCHANGED <<seed, tip, hover, hoverRaf, rafIdRef, rafQueue>>

PointerPositions ==
  {[x |-> i * PointerStep, y |-> i * PointerStep] : i \in 0..MaxPointer}
\* sizes of the rendered svg (getBoundingClientRect), in pixels; they divide
\* the frame size, so viewWidth / rect.width is the integer sizingWidth \div width
SvgRects == {[width |-> 960, height |-> 480]}

\* the svg is styled visibility: hidden while the gate shows, and then gets
\* pointer events only through a pointer capture taken by a drag
sceneVisible == ~showGate

\* mutant: the right button starts a drag like any other
onPointerDownAnyButton(e) ==
  /\ sceneVisible
  /\ dragRef' = [active |-> TRUE, start |-> e.client, orig |-> panRef]
  /\ origHist' = [stale |-> FALSE, anchor |-> ownedCell]
  /\ hover' = "none"
  /\ UNCHANGED <<pan, panRef, resetPending>>
  /\ UNCHANGED gateVars
  /\ UNCHANGED <<seed, tip, hoverRaf, rafIdRef, rafQueue, transform>>

onPointerDown(e) ==
  /\ sceneVisible
  /\ IF e.button = 2
     THEN UNCHANGED <<dragRef, hover, origHist>>
     ELSE /\ dragRef' = [active |-> TRUE, start |-> e.client, orig |-> panRef]
          /\ origHist' = [stale |-> FALSE, anchor |-> ownedCell]
          /\ hover' = "none"
  /\ UNCHANGED <<pan, panRef, resetPending>>
  /\ UNCHANGED gateVars
  /\ UNCHANGED <<seed, tip, hoverRaf, rafIdRef, rafQueue, transform>>

\* the hover effect's pointermove listener on the svg: hide during a drag,
\* else ask for one frame callback unless one is pending
hoverOnMove ==
  IF dragRef.active
  THEN hover' = "none" /\ UNCHANGED hoverRaf
  ELSE IF hoverRaf
       THEN UNCHANGED <<hover, hoverRaf>>
       ELSE hoverRaf' = TRUE /\ UNCHANGED hover

\* mutant: a frame callback is requested on every move
schedulePanFrameAlways ==
  rafIdRef' = TRUE /\ rafQueue' = rafQueue + 1

\* if (!rafIdRef.current) rafIdRef.current = requestAnimationFrame(...)
schedulePanFrame ==
  IF ~rafIdRef
  THEN rafIdRef' = TRUE /\ rafQueue' = rafQueue + 1
  ELSE UNCHANGED <<rafIdRef, rafQueue>>

\* mutant: the candidate offset is written without clamping
onPointerMoveUnclamped(e, rect) ==
  /\ sceneVisible \/ dragRef.active
  /\ hoverOnMove
  /\ IF ~dragRef.active
     THEN UNCHANGED <<panRef, rafIdRef, rafQueue>>
     ELSE LET scaleX == sizingWidth \div rect.width
              scaleY == sizingHeight \div rect.height
              dxPx == e.client.x - dragRef.start.x
              dyPx == e.client.y - dragRef.start.y
          IN /\ panRef' = [x |-> dragRef.orig.x + dxPx * scaleX,
                           y |-> dragRef.orig.y + dyPx * scaleY]
             /\ schedulePanFrame
  /\ UNCHANGED <<pan, dragRef, origHist, resetPending>>
  /\ UNCHANGED gateVars
  /\ UNCHANGED <<seed, tip, transform>>

\* mutant: every move of a drag commits the offset to the pan state
onPointerMoveCommits(e, rect) ==
  /\ sceneVisible \/ dragRef.active
  /\ hoverOnMove
  /\ IF ~dragRef.active
     THEN UNCHANGED <<pan, panRef, rafIdRef, rafQueue>>
     ELSE LET scaleX == sizingWidth \div rect.width
              scaleY == sizingHeight \div rect.height
              dxPx == e.client.x - dragRef.start.x
              dyPx == e.client.y - dragRef.start.y
              nx == dragRef.orig.x + dxPx * scaleX
              ny == dragRef.orig.y + dyPx * scaleY
              L == PAN_LIMITS(ownedCell)
          IN /\ panRef' = [x |-> clamp(nx, L.minX, L.maxX), y |-> clamp(ny, L.minY, L.maxY)]
             /\ pan' = panRef'
             /\ schedulePanFrame
  /\ UNCHANGED <<dragRef, origHist, resetPending>>
  /\ UNCHANGED gateVars
  /\ UNCHANGED <<seed, tip, transform>>

\* a pointermove on the svg: the hover listener, then the React handler
onPointerMove(e, rect) ==
  /\ sceneVisible \/ dragRef.active
  /\ hoverOnMove
  /\ IF ~dragRef.active
     THEN UNCHANGED <<panRef, rafIdRef, rafQueue>>
     ELSE LET scaleX == sizingWidth \div rect.width
              scaleY == sizingHeight \div rect.height
              dxPx == e.client.x - dragRef.start.x
              dyPx == e.client.y - dragRef.start.y
              nx == dragRef.orig.x + dxPx * scaleX
              ny == dragRef.orig.y + dyPx * scaleY
              L == PAN_LIMITS(ownedCell)
          IN /\ panRef' = [x |-> clamp(nx, L.minX, L.maxX), y |-> clamp(ny, L.minY, L.maxY)]
             /\ schedulePanFrame
  /\ UNCHANGED <<pan, dragRef, origHist, resetPending>>
  /\ UNCHANGED gateVars
  /\ UNCHANGED <<seed, tip, transform>>

\* the frame callback of the pan layer: it reads panRef when it runs
panFrame ==
  /\ rafQueue > 0
  /\ rafQueue' = rafQueue - 1
  /\ rafIdRef' = FALSE
  /\ transform' = panRef
  /\ UNCHANGED panVars
  /\ UNCHANGED gateVars
  /\ UNCHANGED <<seed, tip, hover, hoverRaf>>

\* mutant: the commit does not clamp the live offset
onPointerUpUnclamped ==
  /\ sceneVisible \/ dragRef.active
  /\ dragRef' = [dragRef EXCEPT !.active = FALSE]
  /\ origHist' = [origHist EXCEPT !.stale = FALSE]
  /\ pan' = panRef
  /\ transform' = IF panRef # pan THEN panRef ELSE transform
  /\ UNCHANGED <<panRef, resetPending>>
  /\ UNCHANGED gateVars
  /\ UNCHANGED <<seed, tip, hover, hoverRaf, rafIdRef, rafQueue>>

\* mutant: the gesture ends without committing the live offset
onPointerUpNoCommit ==
  /\ sceneVisible \/ dragRef.active
  /\ dragRef' = [dragRef EXCEPT !.active = FALSE]
  /\ origHist' = [origHist EXCEPT !.stale = FALSE]
  /\ LET L == PAN_LIMITS(ownedCell)
         n == [x |-> clamp(panRef.x, L.minX, L.maxX), y |-> clamp(panRef.y, L.minY, L.maxY)]
     IN panRef' = n
  /\ UNCHANGED <<pan, transform>>
  /\ UNCHANGED resetPending
  /\ UNCHANGED gateVars
  /\ UNCHANGED <<seed, tip, hover, hoverRaf, rafIdRef, rafQueue>>

\* bound to onPointerUp and onPointerCancel; the render that commits setPan
\* rewrites the transform attribute when the pan it was rendered from changed
onPointerUp ==
  /\ sceneVisible \/ dragRef.active
  /\ dragRef' = [dragRef EXCEPT !.active = FALSE]
  /\ origHist' = [origHist EXCEPT !.stale = FALSE]
  /\ LET L == PAN_LIMITS(ownedCell)
         n == [x |-> clamp(panRef.x, L.minX, L.maxX), y |-> clamp(panRef.y, L.minY, L.maxY)]
     IN /\ panRef' = n
        /\ pan' = n
        /\ transform' = IF n # pan THEN n ELSE transform
  /\ UNCHANGED resetPending
  /\ UNCHANGED gateVars
  /\ UNCHANGED <<seed, tip, hover, hoverRaf, rafIdRef, rafQueue>>

(* ---------- Hover outline ---------- *)
\* the hover frame callback: shows the outline when the move's target was a
\* tile, hides it otherwise; it does not look at dragRef
hoverFrame(overTile) ==
  /\ hoverRaf
  /\ hoverRaf' = FALSE
  /\ hover' = IF overTile THEN "block" ELSE "none"
  /\ UNCHANGED panVars
  /\ UNCHANGED gateVars
  /\ UNCHANGED <<seed, tip, rafIdRef, rafQueue, transform>>

\* pointerleave on the svg
onLeave ==
  /\ sceneVisible
  /\ hover' = "none"
  /\ UNCHANGED panVars
  /\ UNCHANGED gateVars
  /\ UNCHANGED <<seed, tip, hoverRaf, rafIdRef, rafQueue, transform>>

(* ---------- Coordinate tooltip ---------- *)
\* the tiles a contextmenu event can be over: corners of the rendered window
TipTiles(oc) ==
  LET w == getVisibleWindow(oc)
  IN {Cell(w.startR, w.startC), Cell(w.endR, w.endC)}

\* mutant: the tooltip swaps row and column
onContextSwapped(e) ==
  /\ sceneVisible
  /\ IF e.tile = NoCell
     THEN UNCHANGED tip
     ELSE tip' = [x |-> e.client.x + 8, y |-> e.client.y + 8, r |-> e.tile.y, c |-> e.tile.x]
  /\ UNCHANGED panVars
  /\ UNCHANGED gateVars
  /\ UNCHANGED <<seed, hover, hoverRaf, rafIdRef, rafQueue, transform>>

\* contextmenu on the svg; e.tile is the tile under the pointer or NoCell
onContext(e) ==
  /\ sceneVisible
  /\ IF e.tile = NoCell
     THEN UNCHANGED tip
     ELSE tip' = [x |-> e.client.x + 8, y |-> e.client.y + 8, r |-> e.tile.x, c |-> e.tile.y]
  /\ UNCHANGED panVars
  /\ UNCHANGED gateVars
  /\ UNCHANGED <<seed, hover, hoverRaf, rafIdRef, rafQueue, transform>>

\* e.preventDefault() is called exactly when the event is over a tile
defaultPrevented(e) == e.tile # NoCell

\* click anywhere in the document
onClick ==
  /\ tip' = NoTip
  /\ UNCHANGED panVars
  /\ UNCHANGED gateVars
  /\ UNCHANGED <<seed, hover, hoverRaf, rafIdRef, rafQueue, transform>>

(* ---------- Seed buttons ---------- *)
SeedValues == {SEED_DEFAULT, SEED_DEFAULT + 1}

\* setSeed(s) from a click on Randomize or Reset.  A changed seed re-renders,
\* and seed is a dependency of the pan reset effect; React runs the effects
\* of a render caused by a click before the click returns.
setSeed(s) ==
  /\ sceneVisible
  /\ seed' = s
  /\ IF s # seed
     THEN /\ pan' = resetPan(ownedCell)
          /\ panRef' = resetPan(ownedCell)
          /\ transform' = resetPan(ownedCell)
          /\ resetPending' = FALSE
          /\ origHist' = [origHist EXCEPT !.stale = dragRef.active]
     ELSE UNCHANGED <<pan, panRef, transform, resetPending, origHist>>
  /\ UNCHANGED dragRef
  /\ UNCHANGED gateVars
  /\ UNCHANGED <<tip, hover, hoverRaf, rafIdRef, rafQueue>>

(* ---------- Specification ---------- *)
\* the state after mount: the effects have started the ownership read and the
\* fee read, and the pan reset effect has run once
Init ==
  /\ hasWallet \in BOOLEAN
  /\ account \in (IF hasWallet THEN Accounts \cup {NoAccount} ELSE {NoAccount})
  /\ ledger = LedgerAtLoad
  /\ ownedCell = NoCell
  /\ feeWei = NoFee
  /\ feePc = "pending"
  /\ busy = FALSE
  /\ error = ""
  /\ checks = checkExistingClaim([k \in CheckKinds |-> 0])
  /\ occ = IdleOcc
  /\ pan = resetPan(NoCell)
  /\ panRef = resetPan(NoCell)
  /\ dragRef = [active |-> FALSE, start |-> [x |-> 0, y |-> 0], orig |-> [x |-> 0, y |-> 0]]
  /\ origHist = [stale |-> FALSE, anchor |-> NoCell]
  /\ resetPending = FALSE
  /\ seed = SEED_DEFAULT
  /\ tip = NoTip
  /\ hover = "none"
  /\ hoverRaf = FALSE
  /\ rafIdRef = FALSE
  /\ rafQueue = 0
  /\ transform = resetPan(NoCell)

Next ==
  \/ AccountsResolved
  \/ \E addr \in Accounts : CellResolved(addr)
  \/ \E k \in CheckKinds : CheckFailed(k)
  \/ \E a \in Accounts \cup {NoAccount} : onAccountsChanged(a)
  \/ \E f \in FeeAmounts : FeeResolved(f)
  \/ FeeFailed
  \/ \E xs \in InputTexts, ys \in InputTexts, rid \in ResourceInputs : handleOccupy(xs, ys, rid)
  \/ SignerResolved
  \/ \E msg \in FailureTexts \cup {WalletMissing} : SignerFailed(msg)
  \/ TxSent
  \/ \E msg \in FailureTexts : TxFailed(msg)
  \/ TxConfirmed
  \/ PanResetEffect
  \/ \E p \in PointerPositions, b \in {0, 2} : onPointerDown([button |-> b, client |-> p])
  \/ \E p \in PointerPositions, r \in SvgRects : onPointerMove([client |-> p], r)
  \/ onPointerUp
  \/ panFrame
  \/ \E overTile \in BOOLEAN : hoverFrame(overTile)
  \/ onLeave
  \/ \E p \in PointerPositions, t \in TipTiles(ownedCell) \cup {NoCell} :
        onContext([client |-> p, tile |-> t])
  \/ onClick
  \/ \E s \in SeedValues : setSeed(s)

\* The whole program.  Its reachable states are the product of the gate's and
\* the pan controller's, which is checked through SpecGate and SpecPan below.
Spec == Init /\ [][Next]_vars

(* ---------- Ownership gate on its own ---------- *)
\* the gate's actions and the effect its anchor changes schedule; the pointer
\* handlers write no variable the gate reads
NextGate ==
  \/ AccountsResolved
  \/ \E addr \in Accounts : CellResolved(addr)
  \/ \E k \in CheckKinds : CheckFailed(k)
  \/ \E a \in Accounts \cup {NoAccount} : onAccountsChanged(a)
  \/ \E f \in FeeAmounts : FeeResolved(f)
  \/ FeeFailed
  \/ \E xs \in InputTexts, ys \in InputTexts, rid \in ResourceInputs : handleOccupy(xs, ys, rid)
  \/ SignerResolved
  \/ \E msg \in FailureTexts \cup {WalletMissing} : SignerFailed(msg)
  \/ TxSent
  \/ \E msg \in FailureTexts : TxFailed(msg)
  \/ TxConfirmed
  \/ PanResetEffect

SpecGate == Init /\ [][NextGate]_vars

(* ---------- Pan controller on its own ---------- *)
\* The pan controller reads the gate only through ownedCell.  Here the gate
\* is replaced by its three setOwnedCell call sites firing at any time with
\* any cell the ledger may hold, which covers every order in which the gate
\* can change the anchor.  (0,99) is the cell the ledger holds at load; its
\* frame overhangs the world's right edge, so its limits exclude (0,0).
AnchorCells == {Cell(0, 99)}

anchorChange(c) ==
  /\ setOwnedCell(c)
  /\ UNCHANGED <<hasWallet, account, ledger, feeWei, feePc, busy, error, checks, occ>>
  /\ UNCHANGED <<pan, panRef, dragRef, origHist>>
  /\ UNCHANGED uiVars

InitPan ==
  /\ Init
  /\ hasWallet
  /\ account = NoAccount

NextPan ==
  \/ \E c \in AnchorCells \cup {NoCell} : anchorChange(c)
  \/ PanResetEffect
  \/ \E p \in PointerPositions, b \in {0, 2} : onPointerDown([button |-> b, client |-> p])
  \/ \E p \in PointerPositions, r \in SvgRects : onPointerMove([client |-> p], r)
  \/ onPointerUp

\* (the frame callbacks, which write no offset, are exercised in SpecUi)
SpecPan == InitPan /\ [][NextPan]_vars

(* ---------- Geometry for every anchor ---------- *)
\* The state right after the load-time ownership read has granted the cell
\* the ledger reported, for every cell of the grid, and the state in which
\* it found none; the pan reset effect then runs against that anchor's frame.
InitGeom ==
  /\ hasWallet = TRUE
  /\ account = "acctB"
  /\ ownedCell \in GridCells \cup {NoCell}
  /\ ledger = [a \in Accounts |-> IF a = "acctB" /\ ownedCell # NoCell THEN <<ownedCell>> ELSE <<>>]
  /\ feeWei = NoFee
  /\ feePc = "pending"
  /\ busy = FALSE
  /\ error = ""
  /\ checks = [k \in CheckKinds |-> 0]
  /\ occ = IdleOcc
  /\ pan = resetPan(NoCell)
  /\ panRef = resetPan(NoCell)
  /\ dragRef = [active |-> FALSE, start |-> [x |-> 0, y |-> 0], orig |-> [x |-> 0, y |-> 0]]
  /\ origHist = [stale |-> FALSE, anchor |-> NoCell]
  /\ resetPending = (ownedCell # NoCell)
  /\ seed = SEED_DEFAULT
  /\ tip = NoTip
  /\ hover = "none"
  /\ hoverRaf = FALSE
  /\ rafIdRef = FALSE
  /\ rafQueue = 0
  /\ transform = resetPan(NoCell)

NextGeom == PanResetEffect

SpecGeom == InitGeom /\ [][NextGeom]_vars

(* ---------- Claim form with every kind of field text ---------- *)
\* The claim form for one connected account that owns nothing, so the gate
\* stays on the form until a claim confirms.  The X and Y fields start as ""
\* (useState("")) and an <input type="number"> reports "" for text that is
\* not a number, so the empty text stands for both; "-1" is a negative entry.
FormTexts == InputTexts \cup {<<>>, <<"-", "1">>}

InitForm ==
  /\ Init
  /\ hasWallet
  /\ account = "acctA"

NextForm ==
  \/ AccountsResolved
  \/ \E addr \in Accounts : CellResolved(addr)
  \/ \E k \in CheckKinds : CheckFailed(k)
  \/ \E f \in FeeAmounts : FeeResolved(f)
  \/ FeeFailed
  \/ \E xs \in FormTexts, ys \in FormTexts, rid \in ResourceInputs : handleOccupy(xs, ys, rid)
  \/ SignerResolved
  \/ \E msg \in FailureTexts : SignerFailed(msg)
  \/ TxSent
  \/ \E msg \in FailureTexts : TxFailed(msg)
  \/ TxConfirmed
  \/ PanResetEffect

SpecForm == InitForm /\ [][NextForm]_vars

(* ---------- Ownership read with every kind of ledger answer ---------- *)
\* getFirstCell returns (bool has, uint8 x, uint8 y): the coordinates the
\* chain client supplies are any two bytes; the App converts them with
\* Number() and applies no range check before setOwnedCell
Uint8Max == 255
Uint8Cells == {Cell(0, 99), Cell(200, 3), Cell(Uint8Max, Uint8Max)}

InitRead ==
  /\ hasWallet = TRUE
  /\ account \in Accounts \cup {NoAccount}
  /\ ledger \in {[a \in Accounts |-> IF a = "acctB" THEN <<c>> ELSE <<>>] : c \in Uint8Cells}
  /\ ownedCell = NoCell
  /\ feeWei = NoFee
  /\ feePc = "pending"
  /\ busy = FALSE
  /\ error = ""
  /\ checks = checkExistingClaim([k \in CheckKinds |-> 0])
  /\ occ = IdleOcc
  /\ pan = resetPan(NoCell)
  /\ panRef = resetPan(NoCell)
  /\ dragRef = [active |-> FALSE, start |-> [x |-> 0, y |-> 0], orig |-> [x |-> 0, y |-> 0]]
  /\ origHist = [stale |-> FALSE, anchor |-> NoCell]
  /\ resetPending = FALSE
  /\ seed = SEED_DEFAULT
  /\ tip = NoTip
  /\ hover = "none"
  /\ hoverRaf = FALSE
  /\ rafIdRef = FALSE
  /\ rafQueue = 0
  /\ transform = resetPan(NoCell)

SpecRead == InitRead /\ [][NextGate]_vars

(* ---------- Scene interaction on its own ---------- *)
\* The scene as shown for one granted cell: the load-time read has granted
\* the cell the ledger holds for acctB and the pan reset has run.  No gate
\* action is taken here, so the anchor never changes.
InitUi ==
  /\ hasWallet = TRUE
  /\ account = "acctB"
  /\ ledger = LedgerAtLoad
  /\ ownedCell = Cell(0, 99)
  /\ feeWei = NoFee
  /\ feePc = "pending"
  /\ busy = FALSE
  /\ error = ""
  /\ checks = [k \in CheckKinds |-> 0]
  /\ occ = IdleOcc
  /\ pan = resetPan(ownedCell)
  /\ panRef = resetPan(ownedCell)
  /\ dragRef = [active |-> FALSE, start |-> [x |-> 0, y |-> 0], orig |-> [x |-> 0, y |-> 0]]
  /\ origHist = [stale |-> FALSE, anchor |-> NoCell]
  /\ resetPending = FALSE
  /\ seed = SEED_DEFAULT
  /\ tip = NoTip
  /\ hover = "none"
  /\ hoverRaf = FALSE
  /\ rafIdRef = FALSE
  /\ rafQueue = 0
  /\ transform = resetPan(ownedCell)

NextUi ==
  \/ \E p \in PointerPositions, b \in {0, 2} : onPointerDown([button |-> b, client |-> p])
  \/ \E p \in PointerPositions, r \in SvgRects : onPointerMove([client |-> p], r)
  \/ onPointerUp
  \/ panFrame
  \/ \E overTile \in BOOLEAN : hoverFrame(overTile)
  \/ onLeave
  \/ \E p \in PointerPositions, t \in TipTiles(ownedCell) \cup {NoCell} :
        onContext([client |-> p, tile |-> t])
  \/ onClick
  \/ \E s \in SeedValues : setSeed(s)

SpecUi == InitUi /\ [][NextUi]_vars

(* ======================= Properties ======================= *)
InLimits(p, L) ==
  /\ L.minX <= p.x /\ p.x <= L.maxX
  /\ L.minY <= p.y /\ p.y <= L.maxY

\* clamp as the specification words it
RefClamp(v, lo, hi) == IF v < lo THEN lo ELSE IF v > hi THEN hi ELSE v

CellsOf(a) == {ledger[a][i] : i \in 1..Len(ledger[a])}

\* the centre of a frame, and of the frame as displayed under a pan offset
\* (the pan layer is translated by p inside a fixed viewBox)
frameCentrePoint(oc) ==
  [x |-> viewFrame(oc).minX + viewFrame(oc).width \div 2,
   y |-> viewFrame(oc).minY + viewFrame(oc).height \div 2]
displayedCentre(oc, p) ==
  [x |-> frameCentrePoint(oc).x - p.x, y |-> frameCentrePoint(oc).y - p.y]

\* the step in which the ledger records the claim and tx.wait() resolves
ClaimConfirmedStep == occ.pc = "wait" /\ ledger' # ledger

(* C1: a step of a handleOccupy run changes ownedCell only when it is the
   step in which tx.wait() resolves with the claim recorded on the ledger,
   and then to the claimed cell; the submission, the signer step, the send
   and every failure leave ownedCell as it was. *)
C1_GrantOnlyAfterConfirmation ==
  [][(occ' # occ /\ ownedCell' # ownedCell) =>
       /\ occ.pc = "wait"
       /\ ledger'[occ.acct] = Append(ledger[occ.acct], Cell(occ.xi, occ.yi))
       /\ ownedCell' = Cell(occ.xi, occ.yi)]_vars

\* the claim of (5,5) by acctA has been confirmed and granted
C1_Witness ==
  /\ ownedCell = Cell(5, 5)
  /\ ledger["acctA"] = <<Cell(5, 5)>>
  /\ occ.pc = "idle"
  /\ ~busy

(* C2: whenever a cell is granted, it is a cell the ledger holds for the
   currently active account. *)
C2_GrantedCellOfActiveAccount ==
  ownedCell # NoCell => (account # NoAccount /\ ownedCell \in CellsOf(account))

(* C3: in every state both the live and the committed offset lie within the
   pan limits of the current frame. *)
C3_OffsetsWithinLimits ==
  /\ InLimits(panRef, PAN_LIMITS(ownedCell))
  /\ InLimits(pan, PAN_LIMITS(ownedCell))

(* C4: every offset a drag handler writes (the live offset on a pointer move
   of an active drag; the live and the committed offset on pointer up or
   cancel) lies within the pan limits in force when the handler runs. *)
C4_DragWritesWithinLimits ==
  [][/\ (dragRef.active /\ \E p \in PointerPositions, r \in SvgRects :
                               onPointerMove([client |-> p], r))
          => InLimits(panRef', PAN_LIMITS(ownedCell))
     /\ onPointerUp
          => (InLimits(panRef', PAN_LIMITS(ownedCell)) /\ InLimits(pan', PAN_LIMITS(ownedCell)))
    ]_vars

\* a drag has been clamped at the right-most translate
C4_Witness ==
  /\ dragRef.active
  /\ panRef # dragRef.orig
  /\ panRef.x = PAN_LIMITS(ownedCell).maxX
  /\ ~resetPending

(* C5: for the frame of every anchor cell and for the default frame the pan
   limits are ordered, minX <= maxX and minY <= maxY, with horizontal
   padding 50 and vertical padding 0. *)
C5_LimitsOrdered ==
  /\ EDGE_PAD_X = 50
  /\ EDGE_PAD = 0
  /\ PAN_LIMITS(ownedCell).minX <= PAN_LIMITS(ownedCell).maxX
  /\ PAN_LIMITS(ownedCell).minY <= PAN_LIMITS(ownedCell).maxY

\* the limits of the left corner's frame have been applied
C5_Witness ==
  /\ ownedCell = Cell(99, 0)
  /\ ~resetPending
  /\ pan.x = PAN_LIMITS(ownedCell).maxX

(* C6: every change of the anchor schedules the pan reset, and the reset
   step sets the committed and the live offset to the clamp of (0,0) against
   the limits of the current frame, whatever they were before. *)
C6_AnchorChangeResetsPan ==
  [][/\ (ownedCell' # ownedCell) => resetPending'
     /\ (resetPending /\ ~resetPending') =>
          LET L == PAN_LIMITS(ownedCell')
              z == [x |-> RefClamp(0, L.minX, L.maxX), y |-> RefClamp(0, L.minY, L.maxY)]
          IN pan' = z /\ panRef' = z
    ]_vars

\* the reset has run for the corner anchor while a drag begun under another
\* anchor was still active
C6_Witness ==
  /\ ownedCell = Cell(0, 99)
  /\ ~resetPending
  /\ pan = [x |-> 962, y |-> 0]
  /\ panRef = pan
  /\ dragRef.active
  /\ dragRef.orig # pan

\* a granted cell that was not on the ledger at load, so came from a claim
Claimed(c) ==
  /\ c # NoCell
  /\ c \notin UNION {{LedgerAtLoad[a][i] : i \in 1..Len(LedgerAtLoad[a])} : a \in Accounts}

ZeroWithin(L) == L.minX <= 0 /\ 0 <= L.maxX /\ L.minY <= 0 /\ 0 <= L.maxY

(* C7, as written: after a confirmed claim and the pan reset, the displayed
   viewport is centred on the projection of the claimed cell. *)
C7_DisplayedCentredOnCell ==
  (Claimed(ownedCell) /\ ~resetPending) =>
     displayedCentre(ownedCell, pan) = isoPos(ownedCell.x, ownedCell.y)

\* for every cell of the grid: after the reset the view is centred on the
\* cell exactly when (0,0) is within the limits of the cell's frame
RecentreOnlyWithinLimits ==
  \A c \in GridCells :
     (displayedCentre(c, resetPan(c)) = isoPos(c.x, c.y)) <=> ZeroWithin(PAN_LIMITS(c))

(* C7, amended: a confirmed claim makes the claimed cell the granted cell
   and the viewport frame is centred on its projection; the pan reset then
   sets the offset to the clamp of (0,0), so the displayed viewport is
   centred on the projection minus that clamp, which is the cell itself only
   when (0,0) is within the limits.  For (5,5) the offset is (0,-216) and the
   displayed centre is (0,456). *)
C7_ClaimRecentresUpToClamp ==
  [][/\ ClaimConfirmedStep =>
          /\ ownedCell' = Cell(occ.xi, occ.yi)
          /\ resetPending'
          /\ frameCentrePoint(ownedCell') = isoPos(occ.xi, occ.yi)
     /\ (resetPending /\ ~resetPending' /\ Claimed(ownedCell)) =>
          LET L == PAN_LIMITS(ownedCell)
              q == isoPos(ownedCell.x, ownedCell.y)
          IN /\ pan' = [x |-> RefClamp(0, L.minX, L.maxX), y |-> RefClamp(0, L.minY, L.maxY)]
             /\ displayedCentre(ownedCell, pan') = [x |-> q.x - pan'.x, y |-> q.y - pan'.y]
             /\ ownedCell = Cell(5, 5) =>
                  (pan' = [x |-> 0, y |-> -216]
                   /\ displayedCentre(ownedCell, pan') = [x |-> 0, y |-> 456])
     /\ RecentreOnlyWithinLimits
    ]_vars

\* Scenario D: the claim of (5,5) is confirmed and the pan reset has run
C7_Witness ==
  /\ ownedCell = Cell(5, 5)
  /\ CellsOf("acctA") = {Cell(5, 5)}
  /\ ~resetPending
  /\ pan = [x |-> 0, y |-> -216]
  /\ account = "acctA"

(* C8: for every anchor and for no anchor the visible window is 11 rows by
   11 columns and lies within rows and columns 0..99. *)
C8_WindowFullAndInGrid ==
  LET w == getVisibleWindow(ownedCell)
  IN /\ w.endR - w.startR + 1 = 11
     /\ w.endC - w.startC + 1 = 11
     /\ 0 <= w.startR /\ w.endR <= 99
     /\ 0 <= w.startC /\ w.endC <= 99

\* the bottom corner anchor, whose window is pushed back into the grid
C8_Witness ==
  /\ ownedCell = Cell(99, 99)
  /\ getVisibleWindow(ownedCell).endR = 99
  /\ ~resetPending

(* C9: the visible window is the reference selector's: start =
   clamp(anchor - 5, 0, 89) per axis and span [start, start + 10] with an
   anchor, start 44 without; so no anchor gives [44..54], (0,0) gives
   [0..10] and (99,99) gives [89..99]. *)
C9_WindowEqualsReference ==
  LET w == getVisibleWindow(ownedCell)
      sr == IF ownedCell = NoCell THEN 44 ELSE RefClamp(ownedCell.x - 5, 0, 89)
      sc == IF ownedCell = NoCell THEN 44 ELSE RefClamp(ownedCell.y - 5, 0, 89)
  IN /\ w = [startR |-> sr, endR |-> sr + 10, startC |-> sc, endC |-> sc + 10]
     /\ ownedCell = NoCell => w = [startR |-> 44, endR |-> 54, startC |-> 44, endC |-> 54]
     /\ ownedCell = Cell(0, 0) => w = [startR |-> 0, endR |-> 10, startC |-> 0, endC |-> 10]
     /\ ownedCell = Cell(99, 99) => w = [startR |-> 89, endR |-> 99, startC |-> 89, endC |-> 99]

\* the top corner anchor, whose window starts at 0
C9_Witness ==
  /\ ownedCell = Cell(0, 0)
  /\ getVisibleWindow(ownedCell).startR = 0
  /\ getVisibleWindow(ownedCell).startC = 0
  /\ ~resetPending

\* the projections of all cells of the grid
ProjectedPoints == {isoPos(c.x, c.y) : c \in GridCells}

(* C10: isoPos(row, col) is ((col-row)*48, (col+row)*24), and it is injective
   on the grid: the 10000 cells have 10000 distinct projections. *)
C10_ProjectionInjective ==
  /\ Cardinality(ProjectedPoints) = Cardinality(GridCells)
  /\ Cardinality(GridCells) = 10000
  /\ ownedCell # NoCell =>
       isoPos(ownedCell.x, ownedCell.y) =
         [x |-> (ownedCell.y - ownedCell.x) * 48, y |-> (ownedCell.y + ownedCell.x) * 24]

\* the right corner anchor and its projection
C10_Witness ==
  /\ ownedCell = Cell(0, 99)
  /\ isoPos(ownedCell.x, ownedCell.y) = [x |-> 4752, y |-> 2376]
  /\ ~resetPending

\* the messages of the local checks of handleOccupy
ValidationErrors ==
  {"Coordinates must be integers.", "Coordinates must be within 0..99.",
   "Invalid resource type.", "Occupy fee is not loaded yet."}

\* the field text is a number whose value is an integer in [0, 99]
DenotesIndex(t) ==
  /\ t # <<>>
  /\ Number(t).int
  /\ Number(t).val \in 0..(GRID_SIZE - 1)

(* C11: every submission whose row or column field is not an integer in
   [0, 99] (an empty or non-numeric field included), or whose resource type
   is outside [0, 7], or made before the fee was loaded, is rejected locally:
   a validation error is set, no run towards the wallet or the chain starts,
   busy is clear and the ownership state is unchanged. *)
C11_InvalidSubmissionRejectedLocally ==
  [][\A xs \in FormTexts, ys \in FormTexts, rid \in ResourceInputs :
       (/\ handleOccupy(xs, ys, rid)
        /\ \/ ~DenotesIndex(xs)
           \/ ~DenotesIndex(ys)
           \/ rid \notin 0..7
           \/ feeWei = NoFee)
       => /\ error' \in ValidationErrors
          /\ occ' = occ
          /\ ~busy'
          /\ ownedCell' = ownedCell]_vars

\* a handleOccupy run is suspended at one of its awaits
ClaimPending == occ.pc \in {"signer", "send", "wait"}

(* C12: while a submission is pending, from passing validation to the
   resolution of the chain call, busy is set and no click on Occupy is
   taken, so no second submission starts and at most one claim request is
   in flight. *)
C12_PendingBlocksResubmission ==
  [][/\ ClaimPending => busy
     /\ ClaimPending' => busy'
     /\ ClaimPending =>
          ~\E xs \in InputTexts, ys \in InputTexts, rid \in ResourceInputs :
              handleOccupy(xs, ys, rid)]_vars

\* the form is on screen with a claim sent and awaiting confirmation
C12_Witness ==
  /\ occ.pc = "wait"
  /\ showGate
  /\ busy

(* C13: every handleOccupy run ends with busy = false: no step that leaves
   busy set is a locally rejected click, and the step in which a pending run ends
   (signer failure, user rejection, chain revert, failed confirmation or
   confirmed success) clears it; busy is never set when no run is pending. *)
C13_BusyClearedWhenResolved ==
  [][/\ (ClaimPending /\ ~ClaimPending') => ~busy'
     /\ busy' => ~\E xs \in InputTexts, ys \in InputTexts, rid \in ResourceInputs :
                     handleOccupy(xs, ys, rid) /\ validationError(xs, ys, rid) # ""
     /\ ~ClaimPending => ~busy
     /\ ~ClaimPending' => ~busy']_vars

\* a sent claim was reverted by the ledger and the run has ended
C13_Witness ==
  /\ occ.pc = "idle"
  /\ error = "That cell is already occupied."
  /\ ~busy
  /\ showGate

\* the classification table: needle and user message, in matching order
FailureTable ==
  << <<"outofbounds", "Out of bounds.">>,
     <<"alreadyoccupied", "That cell is already occupied.">>,
     <<"wrongfee", "Wrong fee sent.">>,
     <<"invalidresourcetype", "Invalid resource type.">>,
     <<"user rejected", "Transaction was rejected.">> >>
GenericFailure == "Failed to occupy the cell. See console for details."

\* the message of the first row of the table whose needle occurs in the
\* lower-cased text
FirstMatch(msg) ==
  LET hits == {i \in 1..Len(FailureTable) :
                 \E f \in msg : toLowerCase(f) = FailureTable[i][1]}
  IN IF hits = {} THEN GenericFailure
     ELSE FailureTable[CHOOSE i \in hits : \A j \in hits : i <= j][2]

\* every text made of the known fragments is classified by first match
ClassifiedByFirstMatch ==
  \A msg \in (SUBSET Fragments) \cup {WalletMissing} : classify(msg) = FirstMatch(msg)

(* C14: every failure of the signer or of the chain call inside handleOccupy
   is caught: the step sets the user message of the first match on the
   lower-cased text in the order outofbounds, alreadyoccupied, wrongfee,
   invalidresourcetype, user rejected, else the generic message, and ends
   the run with nothing but error, busy and the run itself changed. *)
C14_FailuresCaughtAndClassified ==
  [][/\ \A msg \in FailureTexts \cup {WalletMissing} :
          (SignerFailed(msg) \/ TxFailed(msg)) =>
             /\ error' = FirstMatch(msg)
             /\ occ' = IdleOcc
             /\ ~busy'
             /\ UNCHANGED <<hasWallet, account, ledger, ownedCell, feeWei, feePc, checks>>
     /\ ClassifiedByFirstMatch]_vars

\* the signer declined and the run has ended with the rejection message
C14_Witness ==
  /\ occ.pc = "idle"
  /\ error = "Transaction was rejected."
  /\ ~busy
  /\ ownedCell = NoCell

\* a step of a handleOccupy run other than the confirmation: the click
\* (rejected or accepted), the signer step, the send, or a failure
FailingRunStep ==
  /\ ~ClaimConfirmedStep
  /\ \/ occ' # occ
     \/ /\ error' \in ValidationErrors
        /\ \E xs \in InputTexts, ys \in InputTexts, rid \in ResourceInputs :
             handleOccupy(xs, ys, rid) /\ validationError(xs, ys, rid) # ""

(* C15: a claim that fails, by local validation or by any failure of the
   signer or the chain, changes at no step the granted cell, the loaded fee
   or the pan offsets (nor schedules a pan reset): a gate that was Gated is
   still Gated and only error, busy and the run's own position change. *)
C15_FailedClaimChangesOnlyErrorAndBusy ==
  [][FailingRunStep =>
       /\ UNCHANGED <<ownedCell, feeWei, feePc, pan, panRef, dragRef, resetPending>>
       /\ UNCHANGED <<hasWallet, account, ledger, checks>>
       /\ showGate => showGate']_vars

\* Scenario F: the ledger rejected the claim as already occupied; the gate is
\* still Gated with the fee and the offsets it had
C15_Witness ==
  /\ error = "That cell is already occupied."
  /\ occ.pc = "idle"
  /\ ownedCell = NoCell
  /\ feeWei = 1000
  /\ pan = resetPan(NoCell) /\ panRef = pan
  /\ ledger = LedgerAtLoad

(* C16: a step of ownership resolution, at load or after an account-changed
   notification, issues at most an eth_accounts request and never a
   connection prompt; an eth_requestAccounts prompt is issued only by a step
   of handleOccupy whose local validation passed. *)
C16_PromptOnlyFromValidatedClaim ==
  [][/\ (checks' # checks) =>
          /\ occ' = occ
          /\ ~(PromptInFlight' /\ ~PromptInFlight)
          /\ AccountReadsInFlight' <= AccountReadsInFlight + 1
     /\ (PromptInFlight' /\ ~PromptInFlight) =>
          /\ checks' = checks
          /\ \E xs \in InputTexts, ys \in InputTexts, rid \in ResourceInputs :
               handleOccupy(xs, ys, rid) /\ validationError(xs, ys, rid) = ""]_vars

\* an account switch has started a second silent read while the prompt of a
\* validated claim is in flight
C16_Witness ==
  /\ PromptInFlight
  /\ AccountReadsInFlight = 2
  /\ ownedCell = NoCell

\* a run of checkExistingClaim returns in this step
CheckRunEnds == InFlight(checks') < InFlight(checks)

(* C17: a run of checkExistingClaim grants a cell exactly when eth_accounts
   gave it a connected account and the ownership read for that account
   reports an owned cell, and then grants the reported cell; a run that ends
   because there is no connected account, no owned cell, or a failed request
   leaves the granted cell and the error message as they were (a Gated gate
   stays Gated), and with no wallet no run is ever in flight and none grants. *)
C17_ReadGrantsExactlyReportedCell ==
  [][/\ \A addr \in Accounts :
          (CellResolved(addr) /\ ledger[addr] # <<>>) =>
             /\ ownedCell' = Head(ledger[addr])
             /\ ~showGate'
             /\ error' = ""
     /\ (CheckRunEnds /\ (ownedCell' # ownedCell \/ error' # error)) =>
          \E addr \in Accounts :
             /\ checks[addr] > 0
             /\ ledger[addr] # <<>>
             /\ CellResolved(addr)
     /\ ( \/ AccountsResolved /\ account = NoAccount
          \/ \E addr \in Accounts : CellResolved(addr) /\ ledger[addr] = <<>>
          \/ \E k \in CheckKinds : CheckFailed(k) ) =>
             /\ CheckRunEnds
             /\ UNCHANGED <<ownedCell, error, resetPending>>
             /\ showGate => showGate'
     /\ ~hasWallet => (InFlight(checks) = 0 /\ ownedCell = NoCell)]_vars

\* the load-time run has granted the cell the ledger reported for acctB
C17_Witness ==
  /\ ownedCell = Cell(0, 99)
  /\ account = "acctB"
  /\ InFlight(checks) = 0
  /\ occ.pc = "idle"
  /\ error = ""

(* C18: every account-changed notification, whether the gate is Gated or
   Granted and whether a read or a claim is in flight, clears the granted
   cell in the same step and starts one new run of checkExistingClaim (a new
   eth_accounts request); it leaves the runs in flight, busy, the error, the
   fee and the offsets as they were, and a clear from Granted schedules the
   pan reset. *)
C18_AccountChangeClearsAndRestarts ==
  [][(account' # account) =>
       /\ ownedCell' = NoCell
       /\ showGate'
       /\ AccountReadsInFlight' = AccountReadsInFlight + 1
       /\ \A a \in Accounts : checks'[a] = checks[a]
       /\ (ownedCell # NoCell) => resetPending'
       /\ UNCHANGED <<occ, busy, error, feeWei, feePc, ledger, pan, panRef, dragRef>>]_vars

\* the wallet disconnected while a cell was granted and a claim was pending:
\* the cell is cleared and a new read is in flight next to the claim
C18_Witness ==
  /\ account = NoAccount
  /\ ownedCell = NoCell
  /\ resetPending
  /\ ClaimPending
  /\ AccountReadsInFlight >= 1

\* the grid scene is on screen: the svg is visible and its hud displayed
scenePresented == svgVisibility = "visible" /\ hudDisplay # "none"

(* C19: in every state exactly one of the claim form and the grid scene is
   presented: the form is rendered and the scene hidden if and only if no
   cell is granted, and the scene is presented and the form not rendered if
   and only if a cell is granted. *)
C19_ExactlyOneOfFormAndScene ==
  /\ gateRendered # scenePresented
  /\ (gateRendered /\ svgVisibility = "hidden" /\ hudDisplay = "none") <=> (ownedCell = NoCell)
  /\ (scenePresented /\ ~gateRendered) <=> (ownedCell # NoCell)

\* a claim was granted while the form showed an error: the scene replaces the
\* form although the error text is still set
C19_Witness ==
  /\ ownedCell # NoCell
  /\ scenePresented
  /\ ~gateRendered
  /\ error # ""

(* C20: in every state where a cell is granted, its row and column are
   integers in [0, 99], whether it came from a confirmed claim or from the
   ownership read. *)
C20_GrantedCellInGrid ==
  ownedCell # NoCell =>
     /\ ownedCell.x \in 0..(GRID_SIZE - 1)
     /\ ownedCell.y \in 0..(GRID_SIZE - 1)

\* the frame the specification's computeFrame gives for a centre cell
RefFrame(c) ==
  [minX |-> (c.y - c.x) * 48 - 960, minY |-> (c.y + c.x) * 24 - 480,
   width |-> 1920, height |-> 960]

(* C21: the viewport frame is a function of the anchor alone: in every state
   its size is 1920 x 960 (20 tile units, not the 11 of the visible window)
   and its origin is the projection of the centre cell minus half the size,
   where the centre is the granted cell if there is one and (49,49)
   otherwise; being this closed form of the anchor, it is the same frame
   every time it is computed for the same anchor, whatever the offsets. *)
C21_FrameFunctionOfAnchor ==
  LET f == viewFrame(ownedCell)
      c == IF ownedCell # NoCell THEN ownedCell ELSE Cell(49, 49)
  IN /\ f = RefFrame(c)
     /\ f.width = 20 * TILE_W /\ f.height = 20 * TILE_H
     /\ f.minX = isoPos(c.x, c.y).x - f.width \div 2
     /\ f.minY = isoPos(c.x, c.y).y - f.height \div 2
     /\ frameCenter(NoCell) = Cell(49, 49)

\* the frame of anchor (10,20) after the pan reset has run for it
C21_Witness ==
  /\ ownedCell = Cell(10, 20)
  /\ viewFrame(ownedCell) = [minX |-> -480, minY |-> 240, width |-> 1920, height |-> 960]
  /\ ~resetPending

(* C22: a click that passes validation starts a run holding exactly the
   numbers of the validated row and column texts, the selected resource type
   and the fee as it was read; the run keeps them unchanged up to and after
   the send, so occupyAt is called with these values and a payment equal to
   the loaded fee. *)
C22_SendsValidatedArgsAndExactFee ==
  [][/\ (~ClaimPending /\ ClaimPending') =>
          \E xs \in FormTexts, ys \in FormTexts, rid \in ResourceInputs :
             /\ handleOccupy(xs, ys, rid)
             /\ validationError(xs, ys, rid) = ""
             /\ occupyAtCall' = [row |-> Number(xs).val, col |-> Number(ys).val,
                                 resourceType |-> rid, value |-> feeWei]
     /\ (ClaimPending /\ ClaimPending') => occupyAtCall' = occupyAtCall
     /\ ClaimPending =>
          /\ occupyAtCall.value = feeWei
          /\ feePc = "done"
          /\ occupyAtCall.value \in FeeAmounts
          /\ occupyAtCall.resourceType \in 0..7
          /\ occupyAtCall.row \in 0..(GRID_SIZE - 1)
          /\ occupyAtCall.col \in 0..(GRID_SIZE - 1)]_vars

\* occupyAt(0, 5, 2, {value: 1000}) has been sent and awaits confirmation
C22_Witness ==
  /\ occ.pc = "wait"
  /\ occupyAtCall = [row |-> 0, col |-> 5, resourceType |-> 2, value |-> 1000]
  /\ feeWei = 1000

\* a step of a pointer, hover or tooltip handler or of a frame callback
PointerHoverTipStep ==
  \/ \E p \in PointerPositions, b \in {0, 2} : onPointerDown([button |-> b, client |-> p])
  \/ \E p \in PointerPositions, r \in SvgRects : onPointerMove([client |-> p], r)
  \/ onPointerUp
  \/ panFrame
  \/ \E overTile \in BOOLEAN : hoverFrame(overTile)
  \/ onLeave
  \/ \E p \in PointerPositions, t \in TipTiles(ownedCell) \cup {NoCell} :
        onContext([client |-> p, tile |-> t])
  \/ onClick

\* a step that is neither drag handling nor an anchor change nor the reset
\* an anchor change schedules
NeitherDragNorAnchorStep ==
  \/ \E f \in FeeAmounts : FeeResolved(f)
  \/ FeeFailed
  \/ \E msg \in FailureTexts \cup {WalletMissing} : SignerFailed(msg) \/ TxFailed(msg)
  \/ \E overTile \in BOOLEAN : hoverFrame(overTile)
  \/ onLeave
  \/ \E p \in PointerPositions, t \in TipTiles(ownedCell) \cup {NoCell} :
        onContext([client |-> p, tile |-> t])
  \/ onClick
  \/ \E s \in SeedValues : setSeed(s)

(* C23: pointer, hover and tooltip events never change the granted cell, the
   fee or busy; and every action that is neither drag handling nor an anchor
   change (fee load, failed claim, hover and tooltip events, the Randomize
   and Reset seed buttons) leaves the live and the committed offset
   unchanged. *)
C23_OffsetsOnlyByPanControllerAndAnchor ==
  [][/\ PointerHoverTipStep => UNCHANGED <<ownedCell, feeWei, busy>>
     /\ NeitherDragNorAnchorStep => UNCHANGED <<pan, panRef>>]_vars

FeeReadFailedStep == feePc = "pending" /\ feePc' = "done" /\ feeWei' = NoFee

(* C24: a failed fee read leaves the fee unloaded and changes nothing but the
   error text (the gate, the Occupy button and the form stay as they were);
   while no fee has been loaded no claim is in flight and busy is false, and
   every click on Occupy ends in a local validation message with no signer
   request and no chain call. *)
C24_FeeReadFailureDisablesSubmission ==
  [][/\ FeeReadFailedStep =>
          /\ error' = "Failed to read occupy fee from contract."
          /\ UNCHANGED <<feeWei, busy, ownedCell, occ, checks, account>>
     /\ feeWei = NoFee =>
          /\ ~busy /\ ~ClaimPending
          /\ (\E xs \in InputTexts, ys \in InputTexts, rid \in ResourceInputs :
                handleOccupy(xs, ys, rid))
               => /\ error' \in ValidationErrors
                  /\ ~busy' /\ occ' = occ /\ feeWei' = NoFee]_vars

\* the fee read has failed and a later click on Occupy with valid inputs was
\* rejected for the missing fee
C24_Witness ==
  /\ feePc = "done" /\ feeWei = NoFee
  /\ error = "Occupy fee is not loaded yet."
  /\ ~busy /\ occ = IdleOcc /\ showGate

DragEndStep == dragRef.active /\ ~dragRef'.active

(* C25: a step that ends a drag (pointer-up or pointer-cancel) leaves the
   drag inactive with committed offset = live offset = the clamp, to the
   current pan limits, of the live offset the gesture had reached; and in
   every state with no drag active and no pan reset pending the committed
   offset equals the live offset. *)
C25_DragEndCommitsClampedLiveOffset ==
  [][/\ DragEndStep =>
          LET L == PAN_LIMITS(ownedCell)
          IN /\ panRef' = [x |-> clamp(panRef.x, L.minX, L.maxX),
                           y |-> clamp(panRef.y, L.minY, L.maxY)]
             /\ pan' = panRef'
     /\ (~dragRef.active /\ ~resetPending) => pan = panRef
     /\ (~dragRef'.active /\ ~resetPending') => pan' = panRef']_vars

\* a gesture has ended away from the reset offset and was committed
C25_Witness ==
  /\ ~dragRef.active /\ ~resetPending
  /\ dragRef.orig # panRef
  /\ pan = panRef
  /\ pan # resetPan(ownedCell)

PointerMoveStep ==
  \E p \in PointerPositions, r \in SvgRects : onPointerMove([client |-> p], r)

CommitOrResetStep ==
  \/ onPointerUp
  \/ PanResetEffect
  \/ \E s \in SeedValues : setSeed(s)

(* C26: a pointer-move changes no React state: the committed offset, the
   drag origin, the granted cell, the gate state, the seed and the tooltip
   are unchanged; during a drag it writes the live offset (and requests the
   frame that applies it to the transform), and with no drag active it
   changes neither offset nor the transform. The committed offset changes
   only in the drag-end handler or in a pan reset. *)
C26_PointerMoveNeverCommits ==
  [][/\ PointerMoveStep =>
          /\ UNCHANGED <<pan, dragRef, resetPending, seed, tip>>
          /\ UNCHANGED gateVars
          /\ ~dragRef.active => UNCHANGED <<panRef, transform, rafIdRef, rafQueue>>
     /\ panFrame => UNCHANGED <<pan, panRef>>
     /\ pan' # pan => CommitOrResetStep]_vars

\* pointer-moves into a drag: the live offset has left the committed one and
\* the frame has applied it to the transform
C26_Witness ==
  /\ dragRef.active
  /\ panRef # pan
  /\ panRef # dragRef.orig
  /\ transform = panRef
  /\ ~rafIdRef

(* C27: at every instant at most one frame callback is pending for the pan
   layer, and one is pending exactly when rafIdRef is set, however many
   pointer-moves arrive before it runs; when the callback runs it clears
   rafIdRef and writes the live offset of that moment, so after it the
   rendered transform equals the live offset. *)
C27_PanFramesCoalesced ==
  [][/\ rafQueue <= 1 /\ rafQueue' <= 1
     /\ rafIdRef' <=> rafQueue' = 1
     /\ panFrame => /\ transform' = panRef'
                    /\ ~rafIdRef' /\ rafQueue' = 0]_vars

\* a drag has moved the scene, its frame callback has run and none is pending
C27_Witness ==
  /\ rafQueue = 0 /\ ~rafIdRef
  /\ transform = panRef
  /\ transform # resetPan(ownedCell)
  /\ dragRef.orig # panRef

(* C28: while a drag is active the hover outline is hidden: in every state
   with dragRef.active the hover overlay has display "none", also when a
   hover frame callback requested by a pointer-move before the drag started
   runs after onPointerDown. *)
C28_HoverHiddenWhileDragging ==
  dragRef.active => hover = "none"

(* C29: a pointer-down with the right (context-menu) button starts no drag
   and leaves the drag state, the live offset and the committed offset
   unchanged; a pointer-down with another button makes the drag active with
   the pointer position as start and the current live offset as origin, and
   changes neither offset. A drag becomes active in no other way. *)
C29_RightButtonNeverStartsDrag ==
  [][/\ \A p \in PointerPositions :
          /\ onPointerDown([button |-> 2, client |-> p])
               => UNCHANGED <<dragRef, pan, panRef>>
          /\ onPointerDown([button |-> 0, client |-> p])
               => /\ dragRef' = [active |-> TRUE, start |-> p, orig |-> panRef]
                  /\ UNCHANGED <<pan, panRef>>
     /\ (~dragRef.active /\ dragRef'.active)
          => \E p \in PointerPositions : onPointerDown([button |-> 0, client |-> p])]_vars

\* a drag started by a left-button pointer-down away from the svg's corner,
\* at an offset other than the reset offset of the current anchor
C29_Witness ==
  /\ dragRef.active
  /\ dragRef.start.x > 0
  /\ dragRef.orig = panRef /\ pan = panRef
  /\ pan # resetPan(ownedCell)

ContextOverTileStep ==
  \E p \in PointerPositions, t \in TipTiles(ownedCell) :
    onContext([client |-> p, tile |-> t])

TileVertices(c) ==
  {[x |-> isoPos(c.x, c.y).x + tilePath[i].x, y |-> isoPos(c.x, c.y).y + tilePath[i].y] :
     i \in 1..Len(tilePath)}

InWorld(v) ==
  /\ WORLD.minX <= v.x /\ v.x <= WORLD.minX + WORLD.width
  /\ WORLD.minY <= v.y /\ v.y <= WORLD.minY + WORLD.height

AllTileVertices == UNION {TileVertices(c) : c \in GridCells}

WorldEdgesTouched ==
  /\ \E v \in AllTileVertices : v.x = WORLD.minX
  /\ \E v \in AllTileVertices : v.x = WORLD.minX + WORLD.width
  /\ \E v \in AllTileVertices : v.y = WORLD.minY
  /\ \E v \in AllTileVertices : v.y = WORLD.minY + WORLD.height

(* C31: WORLD is the bounding box of the projected grid: the four vertices
   of the tile of every cell of the grid (here the anchor, which ranges over
   the whole grid) lie inside WORLD, and each of WORLD's four edges is
   touched by a vertex of some tile. *)
C31_WorldIsBoundingBoxOfGrid ==
  /\ ownedCell \in GridCells => \A v \in TileVertices(ownedCell) : InWorld(v)
  /\ WorldEdgesTouched

\* the anchor is the last cell of the grid, whose bottom vertex lies on
\* WORLD's bottom edge
C31_Witness ==
  /\ ownedCell = Cell(GRID_SIZE - 1, GRID_SIZE - 1)
  /\ ~resetPending
  /\ \E v \in TileVertices(ownedCell) : v.y = WORLD.minY + WORLD.height

\* the part of the scene shown under pan offset p: the pan layer is
\* translated by p inside the fixed viewBox, so the viewBox shows the frame
\* moved by -p
displayedRect(oc, p) ==
  [minX |-> viewFrame(oc).minX - p.x, minY |-> viewFrame(oc).minY - p.y,
   width |-> viewFrame(oc).width, height |-> viewFrame(oc).height]

RectInWorld(r) ==
  /\ WORLD.minX <= r.minX /\ r.minX + r.width <= WORLD.minX + WORLD.width
  /\ WORLD.minY <= r.minY /\ r.minY + r.height <= WORLD.minY + WORLD.height

\* offsets within the limits of anchor oc: the extremes, the middle and the
\* clamp of 0 on each axis
LimitSamples(oc) ==
  LET L == PAN_LIMITS(oc)
  IN {[x |-> px, y |-> py] :
        px \in {L.minX, L.maxX, (L.minX + L.maxX) \div 2, clamp(0, L.minX, L.maxX)},
        py \in {L.minY, L.maxY, (L.minY + L.maxY) \div 2, clamp(0, L.minY, L.maxY)}}

(* C32: for every anchor and every pan offset within PAN_LIMITS (the
   extremes, the middle and the reset value on each axis, and the offset the
   state holds when it is within the limits), the displayed rectangle, i.e.
   the viewport frame translated by the negated offset, lies inside the
   WORLD rectangle. *)
C32_DisplayedRectInsideWorld ==
  /\ \A p \in LimitSamples(ownedCell) :
        InLimits(p, PAN_LIMITS(ownedCell)) /\ RectInWorld(displayedRect(ownedCell, p))
  /\ InLimits(pan, PAN_LIMITS(ownedCell)) => RectInWorld(displayedRect(ownedCell, pan))

\* the corner cell (0,0) is the anchor and the pan was reset against limits
\* that exclude 0, so the displayed rectangle touches WORLD's top edge
C32_Witness ==
  /\ ownedCell = Cell(0, 0)
  /\ ~resetPending
  /\ pan = resetPan(ownedCell) /\ pan.y # 0
  /\ displayedRect(ownedCell, pan).minY = WORLD.minY

(* C33: after an anchor change has reset the pan, the offset stays at the
   clamp of (0,0) until a new drag gesture is started by onPointerDown: while
   the active gesture is one whose origin was recorded before the reset (and
   no further reset is pending), the live offset is the reset offset of the
   current anchor. *)
C33_StaleGestureCannotMoveOffset ==
  (dragRef.active /\ origStale /\ ~resetPending) => panRef = resetPan(ownedCell)

(* C34: once the fee read has succeeded with any amount, an amount of zero
   included, the fee counts as loaded: a click on Occupy with valid
   coordinates and resource type passes the fee check, sets busy and goes on
   to the chain call carrying that amount. *)
C34_AnyLoadedFeeAllowsSubmission ==
  [][(feePc = "done" /\ feeWei \in FeeAmounts /\ ~busy) =>
        \A xs \in InputTexts, ys \in InputTexts, rid \in ResourceInputs :
           (/\ DenotesIndex(xs) /\ DenotesIndex(ys) /\ rid \in 0..7
            /\ handleOccupy(xs, ys, rid))
             => /\ busy' /\ ClaimPending'
                /\ occupyAtCall'.value = feeWei]_vars

\* the offset the specification gives for a pointer at p during the gesture:
\* clamp(origin + scale * (p - start)) against the current limits
RefDragOffset(p, rect) ==
  LET L == PAN_LIMITS(ownedCell)
  IN [x |-> RefClamp(dragRef.orig.x + (sizingWidth \div rect.width) * (p.x - dragRef.start.x),
                     L.minX, L.maxX),
      y |-> RefClamp(dragRef.orig.y + (sizingHeight \div rect.height) * (p.y - dragRef.start.y),
                     L.minY, L.maxY)]

(* C35: during a drag gesture whose limits are those it started under (the
   anchor is the one at its pointer-down), the live offset after a
   pointer-move is clamp(origin + scale * (pointer - start)), a function of
   the gesture origin and the current pointer position only; and a move of
   the pointer back to the start position restores the offset recorded at
   drag start. *)
C35_DragOffsetPathIndependent ==
  [][(dragRef.active /\ origAnchor = ownedCell) =>
        \A p \in PointerPositions, r \in SvgRects :
           onPointerMove([client |-> p], r)
             => /\ panRef' = RefDragOffset(p, r)
                /\ p = dragRef.start => panRef' = dragRef.orig]_vars

(* C36: for every granted cell, the cell the viewport frame is centred on
   (the granted cell itself) lies in the visible window computed for it:
   startR <= row <= endR and startC <= col <= endC, so the owned cell is one
   of the materialized tiles. *)
C36_OwnedCellInVisibleWindow ==
  ownedCell # NoCell =>
    LET w == getVisibleWindow(ownedCell)
        c == frameCenter(ownedCell)
    IN /\ c = ownedCell
       /\ w.startR <= c.x /\ c.x <= w.endR
       /\ w.startC <= c.y /\ c.y <= w.endC

(* C37: with no wallet installed, a submission that passed validation ends
   in getSignerContractMain: the run leaves its signer request only by the
   failure path, which shows the generic failure message, clears busy and
   changes neither the ledger nor the granted cell; no claim is ever sent or
   awaited, and the gate stays Gated. *)
C37_NoWalletSubmissionFailsBeforeSend ==
  [][~hasWallet =>
        /\ occ.pc \notin {"send", "wait"} /\ occ'.pc \notin {"send", "wait"}
        /\ showGate /\ showGate'
        /\ ledger' = ledger
        /\ (occ.pc = "signer" /\ occ' # occ) =>
              /\ occ' = IdleOcc
              /\ error' = GenericFailure
              /\ ~busy']_vars

\* no wallet: a validated submission has failed with the generic message
C37_Witness ==
  /\ ~hasWallet
  /\ feeWei \in FeeAmounts /\ feeWei # 0
  /\ error = GenericFailure
  /\ ~busy /\ occ = IdleOcc /\ showGate

====
